---- MODULE Spec2Model ----
(***************************************************************************)
(* A model of the ArgoCD diff action (src/src/main.ts, the module that     *)
(* starts at line 124): application selection, the sequential diff loop,   *)
(* diff normalisation, report composition and the reconciliation of the    *)
(* report comment on the change request.                                   *)
(*                                                                         *)
(* Texts whose characters the code inspects are sequences of one-character *)
(* strings (paths, names, repository URLs, environment labels).  A diff    *)
(* text is a sequence of lines, each line one of the line shapes that the  *)
(* regular expressions of filterDiff tell apart.                           *)
(*                                                                         *)
(* External services: listComments is taken to return every comment of the *)
(* change request; a request that the code does not await is a message in  *)
(* flight that the service applies, or rejects, at any later moment.       *)
(***************************************************************************)
EXTENDS Integers, Sequences, FiniteSets, TLC

\* ------------------------------------------------------------------------
\* Bounds of the model
\* ------------------------------------------------------------------------
MaxPrior == 2          \* most pre-existing report comments of one environment
MaxItems == 3          \* most applications in an inventory answer given to getApps
MaxPathLen == 3        \* longest source path drawn character by character
MaxFiles == 2          \* most changed files given to partOfApp
MaxNameLen == 2        \* longest application name given to filterAppsByName
MaxNamed == 2          \* most applications given to filterAppsByName
MaxText == 5           \* longest text given to scrubSecrets
MaxLines == 4          \* most lines of a diff text given to filterDiff

Runs == {"r1", "r2"}   \* workflow runs on the same change request

\* ------------------------------------------------------------------------
\* Generic helpers on sequences
\* ------------------------------------------------------------------------
IsPrefix(p, s) == Len(p) <= Len(s) /\ SubSeq(s, 1, Len(p)) = p

Includes(s, sub) ==
  \E i \in 0..(Len(s) - Len(sub)) : SubSeq(s, i + 1, i + Len(sub)) = sub

Flatten(ss) ==
  LET F[i \in 0..Len(ss)] == IF i = 0 THEN <<>> ELSE F[i - 1] \o ss[i]
  IN  F[Len(ss)]

Range(s) == {s[i] : i \in 1..Len(s)}

\* the sequences over S of length at most n
AllSeqs(S, n) == UNION {[1..k -> S] : k \in 0..n}

\* ------------------------------------------------------------------------
\* filterDiff: the normaliser of diff text
\* ------------------------------------------------------------------------
\* Line shapes:
\*   "H"   ===== <group>/<kind> <ns>/<name> ======      (section header)
\*   "C"   a change marker such as 12c12 or 3,4c3,4
\*   "LI"  <  argocd.argoproj.io/instance: ...          (removed value)
\*   "D"   ---
\*   "RI"  >  argocd.argoproj.io/instance: ...          (added value)
\*   "LP"  <  app.kubernetes.io/part-of: ...
\*   "X"   any other non-blank line
\*   "E"   a blank line
Lines == {"H", "C", "LI", "D", "RI", "LP", "X", "E"}

\* split(/(?=^===== )/m): a new section starts before every header line;
\* the empty text gives one empty section, and no empty section is produced
\* in front of a text that starts with a header.
RECURSIVE splitSections(_)
splitSections(text) ==
  IF text = <<>> THEN << <<>> >>
  ELSE LET rest == Tail(text)
           cut  == IF \E i \in 1..Len(rest) : rest[i] = "H"
                   THEN (CHOOSE i \in 1..Len(rest) :
                           rest[i] = "H" /\ \A j \in 1..(i - 1) : rest[j] # "H")
                   ELSE Len(rest) + 1
       IN  IF cut > Len(rest) THEN <<text>>
           ELSE <<SubSeq(text, 1, cut)>> \o splitSections(SubSeq(text, cut + 1, Len(text)))

\* replace(/(C\n)?LI\n---\nRI\n?/g, ''): leftmost non-overlapping matches
RECURSIVE removeInstanceLabel(_)
removeInstanceLabel(s) ==
  IF s = <<>> THEN <<>>
  ELSE IF Len(s) >= 4 /\ SubSeq(s, 1, 4) = <<"C", "LI", "D", "RI">>
       THEN removeInstanceLabel(SubSeq(s, 5, Len(s)))
  ELSE IF Len(s) >= 3 /\ SubSeq(s, 1, 3) = <<"LI", "D", "RI">>
       THEN removeInstanceLabel(SubSeq(s, 4, Len(s)))
  ELSE <<Head(s)>> \o removeInstanceLabel(Tail(s))

\* replace(/(C\n)?LP\n?/g, '')
RECURSIVE removePartOfLabel(_)
removePartOfLabel(s) ==
  IF s = <<>> THEN <<>>
  ELSE IF Len(s) >= 2 /\ SubSeq(s, 1, 2) = <<"C", "LP">>
       THEN removePartOfLabel(SubSeq(s, 3, Len(s)))
  ELSE IF Head(s) = "LP"
       THEN removePartOfLabel(Tail(s))
  ELSE <<Head(s)>> \o removePartOfLabel(Tail(s))

\* String.prototype.trim on a text of whole lines: blank lines at both ends go
RECURSIVE trim(_)
trim(s) ==
  IF s = <<>> THEN <<>>
  ELSE IF Head(s) = "E" THEN trim(Tail(s))
  ELSE IF s[Len(s)] = "E" THEN trim(SubSeq(s, 1, Len(s) - 1))
  ELSE s

\* (variant: no entry counts as a lone header)
isHeaderOnly_never(entry) == FALSE

\* /^===== .*\/.* ======$/ without the m flag: the entry is one header line
isHeaderOnly(entry) == entry = <<"H">>

filterSection(section) == trim(removePartOfLabel(trim(removeInstanceLabel(section))))

filterDiff(diffText) ==
  LET sections == splitSections(diffText)
      filteredSection ==
        SelectSeq([i \in 1..Len(sections) |-> filterSection(sections[i])],
                  LAMBDA section : section # <<>>)
      removeEmptyHeaders ==
        SelectSeq(filteredSection, LAMBDA entry : ~isHeaderOnly(entry))
  IN  trim(Flatten(removeEmptyHeaders))

\* ------------------------------------------------------------------------
\* Paths (path.normalize, path.sep of the POSIX runner) and path affinity
\* ------------------------------------------------------------------------
sep == "/"

\* String.prototype.split(sep): the segments between separators, empty ones kept
RECURSIVE splitOn(_, _)
splitOn(s, c) ==
  IF \E i \in 1..Len(s) : s[i] = c
  THEN LET i == CHOOSE k \in 1..Len(s) : s[k] = c /\ \A j \in 1..(k - 1) : s[j] # c
       IN  <<SubSeq(s, 1, i - 1)>> \o splitOn(SubSeq(s, i + 1, Len(s)), c)
  ELSE <<s>>

\* Array.prototype.join(c)
RECURSIVE joinWith(_, _)
joinWith(parts, c) ==
  IF parts = <<>> THEN <<>>
  ELSE IF Len(parts) = 1 THEN parts[1]
  ELSE parts[1] \o <<c>> \o joinWith(Tail(parts), c)

\* normalizeString of node's path module: drops empty and "." segments and
\* resolves ".." against the segment before it
RECURSIVE normalizeSegments(_, _, _)
normalizeSegments(segs, acc, allowAboveRoot) ==
  IF segs = <<>> THEN acc
  ELSE LET seg == Head(segs) IN
       IF seg = <<>> \/ seg = <<".">>
       THEN normalizeSegments(Tail(segs), acc, allowAboveRoot)
       ELSE IF seg = <<".", ".">>
       THEN IF acc # <<>> /\ acc[Len(acc)] # <<".", ".">>
            THEN normalizeSegments(Tail(segs), SubSeq(acc, 1, Len(acc) - 1), allowAboveRoot)
            ELSE IF allowAboveRoot
                 THEN normalizeSegments(Tail(segs), Append(acc, seg), allowAboveRoot)
                 ELSE normalizeSegments(Tail(segs), acc, allowAboveRoot)
       ELSE normalizeSegments(Tail(segs), Append(acc, seg), allowAboveRoot)

normalize(p) ==
  IF p = <<>> THEN <<".">>
  ELSE LET isAbsolute        == p[1] = sep
           trailingSeparator == p[Len(p)] = sep
           body == joinWith(normalizeSegments(splitOn(p, sep), <<>>, ~isAbsolute), sep)
       IN  IF body = <<>>
           THEN IF isAbsolute THEN <<sep>>
                ELSE IF trailingSeparator THEN <<".", sep>> ELSE <<".">>
           ELSE (IF isAbsolute THEN <<sep>> ELSE <<>>) \o body
                \o (IF trailingSeparator THEN <<sep>> ELSE <<>>)

\* (variant: only the first directory is kept)
getFirstTwoDirectories_firstOnly(filePath) ==
  LET normalizedPath == normalize(filePath)
      parts == SelectSeq(splitOn(normalizedPath, sep), LAMBDA part : part # <<>>)
  IN  IF Len(parts) < 2 THEN joinWith(parts, sep)
      ELSE joinWith(SubSeq(parts, 1, 1), sep)

getFirstTwoDirectories(filePath) ==
  LET normalizedPath == normalize(filePath)
      parts == SelectSeq(splitOn(normalizedPath, sep), LAMBDA part : part # <<>>)
  IN  IF Len(parts) < 2 THEN joinWith(parts, sep)
      ELSE joinWith(SubSeq(parts, 1, 2), sep)

partOfApp(changedFiles, app) ==
  LET sourcePath == normalize(app.path)
      appPath    == getFirstTwoDirectories(sourcePath)
  IN  \E i \in 1..Len(changedFiles) : IsPrefix(appPath, normalize(changedFiles[i]))

\* ------------------------------------------------------------------------
\* filterAppsByName
\* ------------------------------------------------------------------------
\* The regular expressions of the model: a sequence of items, each a
\* literal character, the dot, an assertion ^ or $, a character or dot
\* followed by *, or a negative lookahead (?!...) without a group inside.
atomMatches(atom, c) == atom = "." \/ atom = c

\* the longest run of characters from pos on that the atom matches
maxRun(atom, text, pos) ==
  CHOOSE k \in 0..(Len(text) - pos) :
    /\ \A j \in 1..k : atomMatches(atom, text[pos + j])
    /\ k < Len(text) - pos => ~atomMatches(atom, text[pos + k + 1])

\* the backtracking matcher: the end of the match of re that starts at pos
\* (a count of characters before it), or -1 when there is none
RECURSIVE matchHere(_, _, _)
RECURSIVE matchStar(_, _, _, _, _)
matchHere(re, text, pos) ==
  IF re = <<>> THEN pos
  ELSE IF Len(re) >= 3 /\ SubSeq(re, 1, 3) = <<"(", "?", "!">>
  THEN LET close == CHOOSE k \in 4..Len(re) :
                      re[k] = ")" /\ \A j \in 4..(k - 1) : re[j] # ")"
       IN  IF matchHere(SubSeq(re, 4, close - 1), text, pos) >= 0 THEN -1
           ELSE matchHere(SubSeq(re, close + 1, Len(re)), text, pos)
  ELSE IF re[1] = "^"
  THEN IF pos = 0 THEN matchHere(Tail(re), text, pos) ELSE -1
  ELSE IF re[1] = "$"
  THEN IF pos = Len(text) THEN matchHere(Tail(re), text, pos) ELSE -1
  ELSE IF Len(re) >= 2 /\ re[2] = "*"
  THEN matchStar(re[1], SubSeq(re, 3, Len(re)), text, pos, maxRun(re[1], text, pos))
  ELSE IF pos < Len(text) /\ atomMatches(re[1], text[pos + 1])
  THEN matchHere(Tail(re), text, pos + 1)
  ELSE -1

\* atom*: the greedy choice first, then one character less at a time
matchStar(atom, rest, text, pos, k) ==
  IF k < 0 THEN -1
  ELSE LET e == matchHere(rest, text, pos + k)
       IN  IF e >= 0 THEN e ELSE matchStar(atom, rest, text, pos, k - 1)

\* (variant: the expression has to match the whole name)
regexTest_wholeName(re, name) == matchHere(re, name, 0) = Len(name)

\* RegExp.prototype.test
regexTest(re, name) == \E start \in 0..Len(name) : matchHere(re, name, start) >= 0

\* (variant: the matcher is taken as one name, commas included)
appNames_unsplit(appNameMatcher) == {appNameMatcher}

\* new Set(appNameMatcher.split(','))
appNames(appNameMatcher) == Range(splitOn(appNameMatcher, ","))

\* (variant: the empty matcher is split like a list)
filterAppsByName_emptyAsList(appsAffected, appNameMatcher) ==
  IF appNameMatcher # <<>> /\ appNameMatcher[1] = "/"
     /\ appNameMatcher[Len(appNameMatcher)] = "/"
  THEN LET appNameFilter == SubSeq(appNameMatcher, 2, Len(appNameMatcher) - 1)
       IN  SelectSeq(appsAffected, LAMBDA app : regexTest(appNameFilter, app.name))
  ELSE SelectSeq(appsAffected, LAMBDA app : app.name \in appNames(appNameMatcher))

filterAppsByName(appsAffected, appNameMatcher) ==
  IF appNameMatcher # <<>> /\ appNameMatcher[1] = "/"
     /\ appNameMatcher[Len(appNameMatcher)] = "/"
  THEN LET appNameFilter == SubSeq(appNameMatcher, 2, Len(appNameMatcher) - 1)
       IN  SelectSeq(appsAffected, LAMBDA app : regexTest(appNameFilter, app.name))
  ELSE IF appNameMatcher # <<>>
  THEN SelectSeq(appsAffected, LAMBDA app : app.name \in appNames(appNameMatcher))
  ELSE appsAffected

\* ------------------------------------------------------------------------
\* scrubSecrets
\* ------------------------------------------------------------------------
\* A text is a sequence of characters in which "F" stands for the words
\* "--auth-token=" and " " for a space; "***" is the redaction marker.
notSpace(c) == c # " "

\* input.match(/--auth-token=([\w.\S]+)/): the positions of the flag that a
\* character other than white space follows
flagStarts(input) ==
  {i \in 1..(Len(input) - 1) : input[i] = "F" /\ notSpace(input[i + 1])}

\* the capture group of the match at flag i: the longest run without space
captured(input, i) ==
  LET last == CHOOSE k \in (i + 1)..Len(input) :
                /\ \A j \in (i + 1)..k : notSpace(input[j])
                /\ k < Len(input) => ~notSpace(input[k + 1])
  IN  SubSeq(input, i + 1, last)

\* String.prototype.replace with a global expression and '***': the matches
\* are taken from left to right, and after an empty match the search moves
\* on by one character
RECURSIVE replaceAll(_, _, _)
replaceAll(re, text, pos) ==
  IF pos > Len(text) THEN <<>>
  ELSE LET e    == matchHere(re, text, pos)
           step == IF pos = Len(text) THEN <<>>
                   ELSE <<text[pos + 1]>> \o replaceAll(re, text, pos + 1)
       IN  IF e < 0 THEN step
           ELSE IF e = pos THEN <<"***">> \o step
           ELSE <<"***">> \o replaceAll(re, text, e)

scrubSecrets(input) ==
  IF flagStarts(input) = {} THEN input
  ELSE LET first == CHOOSE i \in flagStarts(input) : \A j \in flagStarts(input) : i <= j
       IN  replaceAll(captured(input, first), input, 0)

\* ------------------------------------------------------------------------
\* The inputs of a run
\* ------------------------------------------------------------------------
\* github.context.repo
owner == <<"o">>
repo  == <<"r">>

RepoHere  == <<"g", "/", "o", "/", "r">>
RepoOther == <<"g", "/", "o", "/", "x">>

MkApp(name, repoURL, path, targetRevision, syncStatus) ==
  [name |-> name, repoURL |-> repoURL, path |-> path,
   targetRevision |-> targetRevision, syncStatus |-> syncStatus]

appA == MkApp(<<"f", "b">>, RepoHere,  <<"i", "/", "a">>, "main", "Synced")
appB == MkApp(<<"z", "q">>, RepoHere,  <<"i", "/", "b">>, "feature-x", "Synced")
appC == MkApp(<<"c", "b">>, RepoHere,  <<"i", "/", "c">>, "", "OutOfSync")
appD == MkApp(<<"d">>,      RepoOther, <<"i", "/", "a">>, "master", "Synced")
appE == MkApp(<<"e">>,      RepoHere,  <<"i", "/", "a", "/", "k">>, "master", "OutOfSync")

\* responseJson.items, in inventory order
Inventory == <<appA, appB, appC, appD, appE>>

\* the answers of pulls.listFiles
ChangedFileSets ==
  { <<>>,
    << <<"i", "/", "a", "/", "x">> >>,
    << <<"i", "/", "a", "/", "x">>, <<"i", "/", "c", "/", "y">> >>,
    << <<"i", "/", "b", "/", "x">>, <<"i", "/", "c", "/", "y">> >> }

\* the input app-name-matcher: none, /b$/, and the list "fb,e"
Matchers == { <<>>, <<"/", "b", "$", "/">>, <<"f", "b", ",", "e">> }

\* the input environment
EnvLabels == { <<"p">>, <<"p", "s">> }

\* what one `argocd app diff` process can hand to the callback of exec:
\* err (the process reported an error), stdout, stderr
DiffBody  == <<"H", "C", "X", "D", "X">>
NoiseOnly == <<"H", "C", "LI", "D", "RI">>
MixedDiff == <<"H", "C", "LI", "D", "RI", "H", "X", "LP", "X">>

ExecOutcomes ==
  { [err |-> FALSE, stdout |-> <<>>,      stderr |-> ""],
    [err |-> FALSE, stdout |-> DiffBody,  stderr |-> ""],
    [err |-> TRUE,  stdout |-> DiffBody,  stderr |-> ""],
    [err |-> TRUE,  stdout |-> NoiseOnly, stderr |-> ""],
    [err |-> TRUE,  stdout |-> MixedDiff, stderr |-> "warning"],
    [err |-> TRUE,  stdout |-> <<>>,      stderr |-> "rpc error"] }

\* the absent `error` field of a Diff
NoError == [err |-> FALSE, cmd |-> <<>>, stdout |-> <<>>, stderr |-> ""]

\* ------------------------------------------------------------------------
\* State
\* ------------------------------------------------------------------------
VARIABLES
  pc,            \* pc[r]: where run r stands
  ENV,           \* ENV[r]: the environment label of run r
  APP_NAME_MATCHER,
  repoApps,      \* getApps: the applications of this repository on its primary branch
  apps,          \* run: the selected applications
  index,         \* asyncForEach: the loop index (1-based)
  inflight,      \* the diff process of apps[index] is running
  invoked,       \* history: the names of the applications diffed, in order
  execLog,       \* history: what each diff process handed back, in order
  diffs,         \* run: the list of Diff records
  filteredDiffs, \* postDiffComment
  output,        \* postDiffComment: the composed report
  listed,        \* postDiffComment: commentsResponse.data
  exitCode,      \* process.exitCode
  failures,      \* the messages given to core.setFailed, in order
  comments,      \* the comments of the change request
  nextId,        \* the id the service gives to the next comment
  pending,       \* requests sent and not awaited
  settled,       \* history: the requests the service has answered
  thrown,        \* history: thrown[r], the awaited calls of run r that threw
  phase,         \* a function called on its own: "none", "called", "returned", "again"
  arg,           \* its arguments
  ret            \* what it returned

vars == <<pc, ENV, APP_NAME_MATCHER, repoApps, apps, index, inflight, invoked,
          execLog, diffs, filteredDiffs, output, listed, exitCode, failures,
          comments, nextId, pending, settled, thrown, phase, arg, ret>>

\* the state of the runs and of the change request
runVars == <<pc, ENV, APP_NAME_MATCHER, repoApps, apps, index, inflight, invoked,
             execLog, diffs, filteredDiffs, output, listed, exitCode, failures,
             comments, nextId, pending, settled, thrown>>

selectionVars == <<repoApps, apps>>
loopVars      == <<index, inflight, invoked, execLog, diffs>>
reportVars    == <<filteredDiffs, output, listed>>
serviceVars   == <<comments, nextId, pending, settled>>
configVars    == <<ENV, APP_NAME_MATCHER>>
statusVars    == <<exitCode, failures>>
historyVars   == <<thrown>>
callVars      == <<phase, arg, ret>>

\* ------------------------------------------------------------------------
\* Comments
\* ------------------------------------------------------------------------
\* The text of a comment is its first line, a sequence of characters in
\* which "#" stands for the fixed words "## ArgoCD Diff on " and "~" for the
\* words " for commit ..." that follow the label, and the blocks under it.
NoBody == [head |-> <<>>, blocks |-> <<>>]

prefixHeader(env) == <<"#">> \o env

reportHead(env) == prefixHeader(env) \o <<"~">>

\* comment.body?.includes(prefixHeader)
bodyIncludes(body, header) == Includes(body.head, header)

MarkerComments(env) == {c \in comments : bodyIncludes(c.body, prefixHeader(env))}

\* the comments found on the change request when the model starts: a remark
\* of a reviewer, k reports of earlier runs for environment "p" and possibly
\* a report for environment "q"
PriorComments(k, withOther) ==
  { [id |-> i, by |-> "prior", body |-> [head |-> reportHead(<<"p">>), blocks |-> <<>>]]
      : i \in 1..k }
  \cup { [id |-> 0, by |-> "prior", body |-> [head |-> <<"l", "g", "t", "m">>, blocks |-> <<>>]] }
  \cup (IF withOther
        THEN { [id |-> k + 1, by |-> "prior",
                body |-> [head |-> reportHead(<<"q">>), blocks |-> <<>>]] }
        ELSE {})

\* no function is being called on its own
NoCall ==
  /\ phase = "none"
  /\ arg = <<>>
  /\ ret = <<>>

\* no run has started
Idle ==
  /\ pc = [r \in Runs |-> "idle"]
  /\ ENV = [r \in Runs |-> <<>>]
  /\ APP_NAME_MATCHER = [r \in Runs |-> <<>>]
  /\ repoApps = [r \in Runs |-> <<>>]
  /\ apps = [r \in Runs |-> <<>>]
  /\ index = [r \in Runs |-> 1]
  /\ inflight = [r \in Runs |-> FALSE]
  /\ invoked = [r \in Runs |-> <<>>]
  /\ execLog = [r \in Runs |-> <<>>]
  /\ diffs = [r \in Runs |-> <<>>]
  /\ filteredDiffs = [r \in Runs |-> <<>>]
  /\ output = [r \in Runs |-> NoBody]
  /\ listed = [r \in Runs |-> {}]
  /\ exitCode = [r \in Runs |-> 0]
  /\ failures = [r \in Runs |-> <<>>]
  /\ pending = {}
  /\ settled = {}
  /\ thrown = [r \in Runs |-> {}]

Init ==
  /\ Idle
  /\ \E k \in 0..MaxPrior, withOther \in BOOLEAN :
       /\ comments = PriorComments(k, withOther)
       /\ nextId = k + 2
  /\ NoCall

\* ------------------------------------------------------------------------
\* The run
\* ------------------------------------------------------------------------
\* core.setFailed(message): process.exitCode = 1 and the message is logged
setFailed(r, message) ==
  /\ exitCode' = [exitCode EXCEPT ![r] = 1]
  /\ failures' = [failures EXCEPT ![r] = Append(@, message)]

\* run().catch(e => core.setFailed(e.message)): a rejection of run
runRejected(r, what) ==
  /\ setFailed(r, [kind |-> "exception", what |-> what, count |-> 0])
  /\ thrown' = [thrown EXCEPT ![r] = @ \cup {what}]
  /\ pc' = [pc EXCEPT ![r] = "rejected"]

\* a workflow run starts: the inputs are read
StartRun(r) ==
  /\ pc[r] = "idle"
  /\ \E env \in EnvLabels, matcher \in Matchers :
       /\ ENV' = [ENV EXCEPT ![r] = env]
       /\ APP_NAME_MATCHER' = [APP_NAME_MATCHER EXCEPT ![r] = matcher]
  /\ pc' = [pc EXCEPT ![r] = "setup"]
  /\ UNCHANGED <<selectionVars, loopVars, reportVars, serviceVars, statusVars, historyVars, callVars>>

\* const argocd = await setupArgoCDCommand()
setupArgoCDCommand(r) ==
  /\ pc[r] = "setup"
  /\ pc' = [pc EXCEPT ![r] = "getApps"]
  /\ UNCHANGED <<configVars, selectionVars, loopVars, reportVars, serviceVars, statusVars, historyVars, callVars>>

\* the download of the binary throws
setupArgoCDCommandThrows(r) ==
  /\ pc[r] = "setup"
  /\ runRejected(r, "setup")
  /\ UNCHANGED <<configVars, selectionVars, loopVars, reportVars, serviceVars, callVars>>

\* (variant: only 'master' counts as the primary branch)
isRepoApp_masterOnly(app) ==
  Includes(app.repoURL, owner \o <<"/">> \o repo) /\ app.targetRevision = "master"

\* the filter of getApps on repository and revision
isRepoApp(app) ==
  LET targetRevision == app.targetRevision
      targetPrimary  == targetRevision = "master" \/ targetRevision = "main"
                        \/ targetRevision = ""
  IN  Includes(app.repoURL, owner \o <<"/">> \o repo) /\ targetPrimary

\* getApps from the inventory answer on: what it returns for the items of
\* the answer, the changed files and the name matcher
getApps(items, changedFiles, appNameMatcher) ==
  LET repoAppsOf   == SelectSeq(items, isRepoApp)
      appsAffected == SelectSeq(repoAppsOf, LAMBDA app : partOfApp(changedFiles, app))
  IN  filterAppsByName(appsAffected, appNameMatcher)

\* getApps, the inventory answered
getAppsFetched(r) ==
  /\ pc[r] = "getApps"
  /\ repoApps' = [repoApps EXCEPT ![r] = SelectSeq(Inventory, isRepoApp)]
  /\ pc' = [pc EXCEPT ![r] = "getChangedFiles"]
  /\ UNCHANGED <<configVars, apps, loopVars, reportVars, serviceVars, statusVars, historyVars, callVars>>

\* (variant: the error is only logged)
getAppsFetchThrows_logOnly(r) ==
  /\ pc[r] = "getApps"
  /\ thrown' = [thrown EXCEPT ![r] = @ \cup {"getApps"}]
  /\ apps' = [apps EXCEPT ![r] = <<>>]
  /\ pc' = [pc EXCEPT ![r] = "loop"]
  /\ UNCHANGED <<configVars, repoApps, loopVars, reportVars, serviceVars, statusVars, callVars>>

\* getApps, nodeFetch or response.json() throws an Error: setFailed, return []
getAppsFetchThrows(r) ==
  /\ pc[r] = "getApps"
  /\ setFailed(r, [kind |-> "inventory", what |-> "getApps", count |-> 0])
  /\ thrown' = [thrown EXCEPT ![r] = @ \cup {"getApps"}]
  /\ apps' = [apps EXCEPT ![r] = <<>>]
  /\ pc' = [pc EXCEPT ![r] = "loop"]
  /\ UNCHANGED <<configVars, repoApps, loopVars, reportVars, serviceVars, callVars>>

\* getChangedFiles answered; the rest of getApps
getChangedFiles(r) ==
  /\ pc[r] = "getChangedFiles"
  /\ \E changedFiles \in ChangedFileSets :
       LET appsAffected == SelectSeq(repoApps[r], LAMBDA app : partOfApp(changedFiles, app))
       IN  apps' = [apps EXCEPT ![r] = filterAppsByName(appsAffected, APP_NAME_MATCHER[r])]
  /\ pc' = [pc EXCEPT ![r] = "loop"]
  /\ UNCHANGED <<configVars, repoApps, loopVars, reportVars, serviceVars, statusVars, historyVars, callVars>>

\* (variant: the error is swallowed and every repository application is kept)
getChangedFilesThrows_swallowed(r) ==
  /\ pc[r] = "getChangedFiles"
  /\ thrown' = [thrown EXCEPT ![r] = @ \cup {"getChangedFiles"}]
  /\ apps' = [apps EXCEPT ![r] = repoApps[r]]
  /\ pc' = [pc EXCEPT ![r] = "loop"]
  /\ UNCHANGED <<configVars, repoApps, loopVars, reportVars, serviceVars, statusVars, callVars>>

\* pulls.listFiles throws: getApps and run reject
getChangedFilesThrows(r) ==
  /\ pc[r] = "getChangedFiles"
  /\ runRejected(r, "getChangedFiles")
  /\ UNCHANGED <<configVars, selectionVars, loopVars, reportVars, serviceVars, callVars>>

\* (variant: the callback is always given the first element)
callbackApp_first(r) == apps[r][1]

\* asyncForEach: callback(array[index], index, array)
callbackApp(r) == apps[r][index[r]]

\* asyncForEach calls the callback for apps[index]: the diff process starts
argocd(r) ==
  /\ pc[r] = "loop"
  /\ ~inflight[r]
  /\ index[r] <= Len(apps[r])
  /\ inflight' = [inflight EXCEPT ![r] = TRUE]
  /\ invoked' = [invoked EXCEPT ![r] = Append(@, callbackApp(r).name)]
  /\ UNCHANGED <<pc, configVars, selectionVars, index, execLog, diffs, reportVars,
                 serviceVars, statusVars, historyVars, callVars>>

\* (variant: every result with an error is recorded as a failure)
pushed_errorFirst(app, res) ==
  IF res.err
  THEN << [app |-> app, diff |-> res.stdout, error |-> res] >>
  ELSE <<>>

\* the Diff records that the callback of asyncForEach pushes for one result
pushed(app, res) ==
  IF res.err
  THEN IF res.stdout # <<>>
       THEN << [app |-> app, diff |-> res.stdout, error |-> NoError] >>
       ELSE << [app |-> app, diff |-> <<>>, error |-> res] >>
  ELSE <<>>

\* (variant: a tool failure ends the loop)
execCommand_abortOnFailure(r) ==
  /\ pc[r] = "loop"
  /\ inflight[r]
  /\ \E o \in ExecOutcomes :
       LET app == apps[r][index[r]]
           res == [err |-> o.err, cmd |-> IF o.err THEN app.name ELSE <<>>,
                   stdout |-> o.stdout, stderr |-> o.stderr]
       IN  /\ execLog' = [execLog EXCEPT ![r] = Append(@, res)]
           /\ diffs' = [diffs EXCEPT ![r] = @ \o pushed(app, res)]
           /\ index' = [index EXCEPT ![r] =
                          IF res.err /\ res.stdout = <<>> THEN Len(apps[r]) + 1 ELSE @ + 1]
  /\ inflight' = [inflight EXCEPT ![r] = FALSE]
  /\ UNCHANGED <<pc, configVars, selectionVars, invoked, reportVars, serviceVars, statusVars, historyVars, callVars>>

\* execCommand: the process ends, the promise settles, the callback finishes
execCommand(r) ==
  /\ pc[r] = "loop"
  /\ inflight[r]
  /\ \E o \in ExecOutcomes :
       LET app == callbackApp(r)
           res == [err |-> o.err, cmd |-> IF o.err THEN app.name ELSE <<>>,
                   stdout |-> o.stdout, stderr |-> o.stderr]
       IN  /\ execLog' = [execLog EXCEPT ![r] = Append(@, res)]
           /\ diffs' = [diffs EXCEPT ![r] = @ \o pushed(app, res)]
  /\ inflight' = [inflight EXCEPT ![r] = FALSE]
  /\ index' = [index EXCEPT ![r] = @ + 1]
  /\ UNCHANGED <<pc, configVars, selectionVars, invoked, reportVars, serviceVars, statusVars, historyVars, callVars>>

\* one block of the report
block(d) ==
  [name   |-> d.app.name,
   yaml   |-> IF d.error # NoError THEN "Error" ELSE "Success",
   sync   |-> IF d.app.syncStatus = "Synced" THEN "Synced" ELSE "Out of Sync",
   stderr |-> IF d.error # NoError THEN d.error.stderr ELSE "",
   command |-> IF d.error # NoError THEN d.error.cmd ELSE <<>>,
   diff   |-> d.diff]

\* (variant: the normalisation is skipped)
normalized_skipped(ds) == ds

\* diffs.map(diff => { diff.diff = filterDiff(diff.diff); return diff; })
normalized(ds) == [i \in 1..Len(ds) |-> [ds[i] EXCEPT !.diff = filterDiff(@)]]

keepDiff(d) == d.diff # <<>>

\* (variant: the blocks are put together from the last record to the first)
diffOutput_reversed(kept) == [i \in 1..Len(kept) |-> block(kept[Len(kept) + 1 - i])]

\* filteredDiffs.map(({ app, diff, error }) => `...`)
diffOutput(kept) == [i \in 1..Len(kept) |-> block(kept[i])]

\* (variant: the loop returns when the last callback has been called)
asyncForEachReturned_unawaited(r) == index[r] >= Len(apps[r])

\* await asyncForEach(apps, ...): every callback has been awaited
asyncForEachReturned(r) == ~inflight[r] /\ index[r] > Len(apps[r])

\* (variant: with no record at all postDiffComment returns at once)
postDiffComment_skipEmpty(r) ==
  /\ pc[r] = "loop"
  /\ asyncForEachReturned(r)
  /\ LET mapped == normalized(diffs[r])
         kept   == SelectSeq(mapped, keepDiff)
     IN  /\ diffs' = [diffs EXCEPT ![r] = mapped]
         /\ filteredDiffs' = [filteredDiffs EXCEPT ![r] = kept]
         /\ output' = [output EXCEPT ![r] =
                         [head |-> scrubSecrets(reportHead(ENV[r])),
                          blocks |-> diffOutput(kept)]]
  /\ pc' = [pc EXCEPT ![r] = IF diffs[r] = <<>> THEN "done" ELSE "listComments"]
  /\ UNCHANGED <<configVars, selectionVars, index, inflight, invoked, execLog, listed,
                 serviceVars, statusVars, historyVars, callVars>>

\* postDiffComment up to its await: the report is composed, listComments is sent
postDiffComment(r) ==
  /\ pc[r] = "loop"
  /\ asyncForEachReturned(r)
  /\ LET mapped == normalized(diffs[r])
         kept   == SelectSeq(mapped, keepDiff)
     IN  /\ diffs' = [diffs EXCEPT ![r] = mapped]
         /\ filteredDiffs' = [filteredDiffs EXCEPT ![r] = kept]
         /\ output' = [output EXCEPT ![r] =
                         [head |-> scrubSecrets(reportHead(ENV[r])),
                          blocks |-> diffOutput(kept)]]
  /\ pc' = [pc EXCEPT ![r] = "listComments"]
  /\ UNCHANGED <<configVars, selectionVars, index, inflight, invoked, execLog, listed,
                 serviceVars, statusVars, historyVars, callVars>>

\* (variant: only the latest report is deleted)
deleteRequests_latestOnly(r, data) ==
  LET stale == {d \in data : bodyIncludes(d.body, prefixHeader(ENV[r]))}
  IN  { [run |-> r, op |-> "deleteComment", id |-> c.id, body |-> NoBody]
          : c \in {d \in stale : \A e \in stale : e.id <= d.id} }

\* the requests that postDiffComment sends without awaiting them
deleteRequests(r, data) ==
  { [run |-> r, op |-> "deleteComment", id |-> c.id, body |-> NoBody]
      : c \in {d \in data : bodyIncludes(d.body, prefixHeader(ENV[r]))} }

\* (variant: the report is posted also when it has no block)
createRequests_always(r) ==
  { [run |-> r, op |-> "createComment", id |-> 0, body |-> output[r]] }

\* if (filteredDiffs.length) octokit.rest.issues.createComment(...)
createRequests(r) ==
  IF Len(filteredDiffs[r]) > 0
  THEN { [run |-> r, op |-> "createComment", id |-> 0, body |-> output[r]] }
  ELSE {}

\* (variant: the results are counted by their diff text)
diffsWithErrors_byDiff(ds) == SelectSeq(ds, LAMBDA d : d.diff # <<>>)

\* diffs.filter(d => d.error)
diffsWithErrors(ds) == SelectSeq(ds, LAMBDA d : d.error # NoError)

\* listComments answers; postDiffComment sends the deletions and the creation
\* and returns; run counts the errors
listComments(r) ==
  /\ pc[r] = "listComments"
  /\ listed' = [listed EXCEPT ![r] = comments]
  /\ pending' = pending \cup deleteRequests(r, comments) \cup createRequests(r)
  /\ IF Len(diffsWithErrors(diffs[r])) > 0
     THEN setFailed(r, [kind |-> "errors", what |-> "run",
                        count |-> Len(diffsWithErrors(diffs[r]))])
     ELSE UNCHANGED statusVars
  /\ pc' = [pc EXCEPT ![r] = "done"]
  /\ UNCHANGED <<configVars, selectionVars, loopVars, filteredDiffs, output,
                 comments, nextId, settled, historyVars, callVars>>

\* listComments throws: postDiffComment and run reject
listCommentsThrows(r) ==
  /\ pc[r] = "listComments"
  /\ runRejected(r, "listComments")
  /\ UNCHANGED <<configVars, selectionVars, loopVars, reportVars, serviceVars, callVars>>

\* ------------------------------------------------------------------------
\* The change-tracking service answers the requests that were not awaited
\* ------------------------------------------------------------------------
\* A rejected promise that nobody awaits: the runtime either only warns or
\* ends the process with exit code 1, depending on its version
unhandledRejection(r) ==
  /\ \E code \in {exitCode[r], 1} : exitCode' = [exitCode EXCEPT ![r] = code]
  /\ UNCHANGED failures

deleteCommentDone(req) ==
  /\ req \in pending /\ req.op = "deleteComment"
  /\ \E c \in comments : c.id = req.id
  /\ comments' = {c \in comments : c.id # req.id}
  /\ pending' = pending \ {req}
  /\ settled' = settled \cup {[req |-> req, ok |-> TRUE]}
  /\ UNCHANGED <<pc, configVars, selectionVars, loopVars, reportVars, nextId, statusVars, historyVars, callVars>>

deleteCommentFails(req) ==
  /\ req \in pending /\ req.op = "deleteComment"
  /\ pending' = pending \ {req}
  /\ settled' = settled \cup {[req |-> req, ok |-> FALSE]}
  /\ unhandledRejection(req.run)
  /\ UNCHANGED <<pc, configVars, selectionVars, loopVars, reportVars, comments, nextId, historyVars, callVars>>

createCommentDone(req) ==
  /\ req \in pending /\ req.op = "createComment"
  /\ comments' = comments \cup {[id |-> nextId, by |-> req.run, body |-> req.body]}
  /\ nextId' = nextId + 1
  /\ pending' = pending \ {req}
  /\ settled' = settled \cup {[req |-> req, ok |-> TRUE]}
  /\ UNCHANGED <<pc, configVars, selectionVars, loopVars, reportVars, statusVars, historyVars, callVars>>

createCommentFails(req) ==
  /\ req \in pending /\ req.op = "createComment"
  /\ pending' = pending \ {req}
  /\ settled' = settled \cup {[req |-> req, ok |-> FALSE]}
  /\ unhandledRejection(req.run)
  /\ UNCHANGED <<pc, configVars, selectionVars, loopVars, reportVars, comments, nextId, historyVars, callVars>>

RunStep(r) ==
  \/ StartRun(r)
  \/ setupArgoCDCommand(r)
  \/ setupArgoCDCommandThrows(r)
  \/ getAppsFetched(r)
  \/ getAppsFetchThrows(r)
  \/ getChangedFiles(r)
  \/ getChangedFilesThrows(r)
  \/ argocd(r)
  \/ execCommand(r)
  \/ postDiffComment(r)
  \/ listComments(r)
  \/ listCommentsThrows(r)

ServiceStep ==
  \E req \in pending :
    \/ deleteCommentDone(req)
    \/ deleteCommentFails(req)
    \/ createCommentDone(req)
    \/ createCommentFails(req)

\* one run on the change request
Next == RunStep("r1") \/ ServiceStep

Spec == Init /\ [][Next]_vars

\* ------------------------------------------------------------------------
\* Vocabulary of the properties
\* ------------------------------------------------------------------------
RequestsOf(r) == {req \in pending : req.run = r} \cup {q.req : q \in {x \in settled : x.req.run = r}}

\* the process of run r has ended: run has returned or rejected and every
\* request it sent has been answered
Finished(r) == pc[r] \in {"done", "rejected"} /\ ~ \E req \in pending : req.run = r

\* postDiffComment has returned and all its requests have taken effect
Reconciled(r) ==
  /\ pc[r] = "done"
  /\ ~ \E req \in pending : req.run = r
  /\ \A q \in settled : q.req.run = r => q.ok

\* the report of run r has been composed
Composed(r) ==
  \/ pc[r] \in {"listComments", "done"}
  \/ pc[r] = "rejected" /\ "listComments" \in thrown[r]

\* a createComment request was sent by run r
Posted(r) == \E req \in RequestsOf(r) : req.op = "createComment"

BlockNames(r) == {output[r].blocks[i].name : i \in 1..Len(output[r].blocks)}

\* the invocations of run r that ended as a diff, as a diff that survives the
\* normalisation, and as a tool failure
DiffIdx(r)    == {i \in 1..Len(execLog[r]) : execLog[r][i].err /\ execLog[r][i].stdout # <<>>}
ContentIdx(r) == {i \in DiffIdx(r) : filterDiff(execLog[r][i].stdout) # <<>>}
FailedIdx(r)  == {i \in 1..Len(execLog[r]) : execLog[r][i].err /\ execLog[r][i].stdout = <<>>}

RecordsOf(r, i) == {d \in Range(diffs[r]) : d.app = apps[r][i]}

\* ------------------------------------------------------------------------
\* C1
\* ------------------------------------------------------------------------
\* C1: once postDiffComment has returned and all its requests have taken
\* effect, the change request holds no comment with the header of the run's
\* environment when the run had nothing to report (filteredDiffs is empty)
\* and exactly one when it had, however many such comments there were before.
C1_OneLiveReport ==
  \A r \in Runs :
    Reconciled(r) =>
      Cardinality(MarkerComments(ENV[r])) = IF Len(filteredDiffs[r]) > 0 THEN 1 ELSE 0

\* a run with something to report has replaced two or more earlier reports
C1_Witness ==
  /\ Reconciled("r1")
  /\ Cardinality({c \in listed["r1"] : bodyIncludes(c.body, prefixHeader(ENV["r1"]))}) >= 2
  /\ Len(filteredDiffs["r1"]) > 0
  /\ Cardinality(MarkerComments(ENV["r1"])) = 1

\* ------------------------------------------------------------------------
\* C2
\* ------------------------------------------------------------------------
\* C2: the applications with a block in the composed report are exactly the
\* selected applications whose recorded diff text is non-empty after
\* filterDiff; an application without a diff or with a noise-only diff has
\* no block.
C2_BlocksAreNonEmptyDiffs ==
  \A r \in Runs :
    Composed(r) => BlockNames(r) = {apps[r][i].name : i \in ContentIdx(r)}

\* a report with a block, composed in a run that also had a noise-only diff
\* and an application without a diff
C2_Witness ==
  /\ Composed("r1")
  /\ BlockNames("r1") # {}
  /\ \E i \in DiffIdx("r1") : i \notin ContentIdx("r1")
  /\ \E i \in 1..Len(execLog["r1"]) : ~execLog["r1"][i].err

\* ------------------------------------------------------------------------
\* C3
\* ------------------------------------------------------------------------
\* C3: a report comment is posted in a run if and only if some selected
\* application has a non-empty normalised diff or had a tool failure.
C3_PostedIffContentOrFailure ==
  \A r \in Runs :
    pc[r] = "done" => (Posted(r) <=> (ContentIdx(r) # {} \/ FailedIdx(r) # {}))

\* ------------------------------------------------------------------------
\* C4
\* ------------------------------------------------------------------------
\* C4: every application whose invocation ended as a tool failure has a
\* block in the composed report with the failure glyph, the stderr text and
\* the command.
C4_FailureHasBlock ==
  \A r \in Runs :
    Composed(r) =>
      \A i \in FailedIdx(r) :
        \E k \in 1..Len(output[r].blocks) :
          LET b == output[r].blocks[k]
          IN  /\ b.name = apps[r][i].name
              /\ b.yaml = "Error"
              /\ b.stderr = execLog[r][i].stderr
              /\ b.command = execLog[r][i].cmd

\* ------------------------------------------------------------------------
\* C5
\* ------------------------------------------------------------------------
\* C5 (as claimed): whenever stdout is non-empty the invocation is recorded
\* as a diff carrying that stdout, whatever the exit status; it is recorded
\* as a failure exactly when stdout is empty and the process reported an
\* error.
C5_ClassifiedByStdout ==
  \A r \in Runs :
    pc[r] = "loop" =>
      \A i \in 1..Len(execLog[r]) :
        LET res == execLog[r][i] IN
        /\ res.stdout # <<>> =>
             RecordsOf(r, i) = {[app |-> apps[r][i], diff |-> res.stdout, error |-> NoError]}
        /\ (\E d \in RecordsOf(r, i) : d.error # NoError) <=> (res.stdout = <<>> /\ res.err)

\* C5 (amended): an invocation whose process reported an error is recorded
\* as a diff carrying stdout when stdout is non-empty, and as a failure that
\* retains stderr and the command when stdout is empty; an invocation whose
\* process reported no error is not recorded at all, whatever its stdout.
C5_ClassifiedOnError ==
  \A r \in Runs :
    pc[r] = "loop" =>
      \A i \in 1..Len(execLog[r]) :
        LET res == execLog[r][i] IN
        RecordsOf(r, i) =
          IF res.err /\ res.stdout # <<>>
          THEN {[app |-> apps[r][i], diff |-> res.stdout, error |-> NoError]}
          ELSE IF res.err
          THEN {[app |-> apps[r][i], diff |-> <<>>,
                 error |-> [err |-> TRUE, cmd |-> apps[r][i].name,
                            stdout |-> <<>>, stderr |-> res.stderr]]}
          ELSE {}

\* the loop has seen a diff, a failure and a process that printed without
\* reporting an error
C5_Witness ==
  /\ pc["r1"] = "loop"
  /\ DiffIdx("r1") # {}
  /\ FailedIdx("r1") # {}
  /\ \E i \in 1..Len(execLog["r1"]) :
       ~execLog["r1"][i].err /\ execLog["r1"][i].stdout # <<>>

\* ------------------------------------------------------------------------
\* C6
\* ------------------------------------------------------------------------
HasCountMessage(r) ==
  \E k \in 1..Len(failures[r]) :
    failures[r][k].kind = "errors" /\ failures[r][k].count = Cardinality(FailedIdx(r))

\* C6 (as claimed): whenever some invocation ended as a tool failure, the
\* final status of the run is failed with a message that carries the number
\* of failed applications.
C6_FailedWithCount ==
  \A r \in Runs :
    (Finished(r) /\ FailedIdx(r) # {}) => (exitCode[r] = 1 /\ HasCountMessage(r))

\* C6 (amended): whenever some invocation ended as a tool failure, the final
\* status of the run is failed; the message that carries the number of
\* failed applications is given when postDiffComment returned, also when a
\* report was posted; when listing the comments threw, the status is failed
\* with the message of that error instead.
C6_FailedAndCountAfterReport ==
  \A r \in Runs :
    (Finished(r) /\ FailedIdx(r) # {}) =>
      /\ exitCode[r] = 1
      /\ pc[r] = "done" => HasCountMessage(r)
      /\ pc[r] = "rejected" =>
           failures[r][Len(failures[r])].kind = "exception" /\ ~HasCountMessage(r)

\* a run with a tool failure has ended and its report is on the change request
C6_Witness ==
  /\ Finished("r1")
  /\ pc["r1"] = "done"
  /\ FailedIdx("r1") # {}
  /\ \E c \in comments : c.by = "r1"

\* ------------------------------------------------------------------------
\* C7
\* ------------------------------------------------------------------------
\* C7: the diff tool is invoked in selection order, never twice for an
\* application, and once the loop is over it has been invoked exactly once
\* for every selected application, whatever the outcomes were.
C7_InvokedOncePerApp ==
  \A r \in Runs :
    /\ Len(invoked[r]) <= Len(apps[r])
    /\ \A i \in 1..Len(invoked[r]) : invoked[r][i] = apps[r][i].name
    /\ Composed(r) =>
         \A i \in 1..Len(apps[r]) :
           Cardinality({j \in 1..Len(invoked[r]) : invoked[r][j] = apps[r][i].name}) = 1

\* the loop is over, the first of three applications had a tool failure
C7_Witness ==
  /\ Composed("r1")
  /\ Len(apps["r1"]) = 3
  /\ 1 \in FailedIdx("r1")
  /\ Len(invoked["r1"]) = 3

\* ------------------------------------------------------------------------
\* C8
\* ------------------------------------------------------------------------
\* C8: when the inventory request or the decoding of its answer throws, the
\* selection is empty, the diff tool is never invoked, no report is posted
\* and the status of the run is failed.
C8_InventoryFailure ==
  \A r \in Runs :
    "getApps" \in thrown[r] =>
      /\ apps[r] = <<>>
      /\ invoked[r] = <<>>
      /\ ~inflight[r]
      /\ ~Posted(r)
      /\ exitCode[r] = 1

\* a run whose inventory request threw has ended
C8_Witness ==
  /\ "getApps" \in thrown["r1"]
  /\ Finished("r1")
  /\ pc["r1"] = "done"

\* ------------------------------------------------------------------------
\* C9
\* ------------------------------------------------------------------------
\* C9: when fetching the changed files throws, the run is over before any
\* diff process starts, and its status is failed.
C9_ChangedFilesFailure ==
  \A r \in Runs :
    "getChangedFiles" \in thrown[r] =>
      /\ pc[r] = "rejected"
      /\ invoked[r] = <<>>
      /\ ~inflight[r]
      /\ exitCode[r] = 1

\* fetching the changed files threw in a run that had applications to select from
C9_Witness ==
  /\ "getChangedFiles" \in thrown["r1"]
  /\ repoApps["r1"] # <<>>

\* ------------------------------------------------------------------------
\* C10
\* ------------------------------------------------------------------------
\* C10: when creating the report comment fails, the create is not sent again,
\* the deletions stay in effect and the final status of the run is failed.
C10_CreateFailureFailsRun ==
  \A r \in Runs :
    (Finished(r) /\ \E q \in settled :
                      q.req.run = r /\ q.req.op = "createComment" /\ ~q.ok) =>
      /\ Cardinality({q \in settled : q.req.run = r /\ q.req.op = "createComment"}) = 1
      /\ \A q \in settled :
           (q.req.run = r /\ q.req.op = "deleteComment" /\ q.ok) =>
             ~ \E c \in comments : c.id = q.req.id
      /\ exitCode[r] = 1

\* ========================================================================
\* Functions called on their own
\* ========================================================================
\* the run variables stay as they are before any run
Called(a) ==
  /\ Idle
  /\ comments = PriorComments(0, FALSE)
  /\ nextId = 2
  /\ phase = "called"
  /\ arg = a
  /\ ret = <<>>

Returns(value) ==
  /\ phase = "called"
  /\ phase' = "returned"
  /\ ret' = value
  /\ UNCHANGED <<arg, runVars>>

\* ------------------------------------------------------------------------
\* getApps on an inventory answer
\* ------------------------------------------------------------------------
InitSelect ==
  \E items \in AllSeqs(Range(Inventory), MaxItems),
     changedFiles \in ChangedFileSets, matcher \in Matchers :
    Called([fn |-> "getApps", items |-> items, changedFiles |-> changedFiles,
            matcher |-> matcher])

getAppsReturns ==
  /\ arg.fn = "getApps"
  /\ Returns(getApps(arg.items, arg.changedFiles, arg.matcher))

NextSelect == getAppsReturns

SpecSelect == InitSelect /\ [][NextSelect]_vars

\* ------------------------------------------------------------------------
\* C11
\* ------------------------------------------------------------------------
\* the four conditions of the selection, each on its own
PassesAllFilters(app, changedFiles, matcher) ==
  /\ Includes(app.repoURL, owner \o <<"/">> \o repo)
  /\ app.targetRevision \in {"master", "main", ""}
  /\ partOfApp(changedFiles, app)
  /\ filterAppsByName(<<app>>, matcher) = <<app>>

\* C11: getApps returns, in inventory order, exactly the applications whose
\* repository URL contains owner/repo, whose target revision is master, main
\* or empty, that the changed files affect and that the name filter keeps.
C11_Selection ==
  (phase = "returned" /\ arg.fn = "getApps") =>
    ret = SelectSeq(arg.items,
                    LAMBDA app : PassesAllFilters(app, arg.changedFiles, arg.matcher))

\* inventory A (i/a, main) and B (i/b, feature-x), changed file i/a/x: [A]
C11_Witness ==
  /\ phase = "returned"
  /\ arg.fn = "getApps"
  /\ arg.items = <<appA, appB>>
  /\ arg.changedFiles = << <<"i", "/", "a", "/", "x">> >>
  /\ arg.matcher = <<>>
  /\ ret = <<appA>>

\* ------------------------------------------------------------------------
\* partOfApp on a source path and a list of changed files
\* ------------------------------------------------------------------------
PathChars == {"a", "f", "/", "."}

\* app.spec.source.path: every short path, and apps/foo, apps/baz, apps/foo/k
SourcePaths ==
  AllSeqs(PathChars, MaxPathLen)
  \cup { <<"a", "/", "f">>, <<"a", "/", "z">>, <<"a", "/", "f", "/", "k">> }

\* file.filename: apps/foo/bar/values.yaml, apps/foobar/x, appsfoo/x, ...
FileSamples ==
  { <<"a", "/", "f", "/", "b", "/", "v">>,
    <<"a", "/", "f", "b", "/", "x">>,
    <<"a", "f", "/", "x">>,
    <<"a", "/", "/", "f", "/", "x">>,
    <<".", "/", "f">>,
    <<"z">> }

InitAffinity ==
  \E path \in SourcePaths, changedFiles \in AllSeqs(FileSamples, MaxFiles) :
    Called([fn |-> "partOfApp", path |-> path, changedFiles |-> changedFiles])

partOfAppReturns ==
  /\ arg.fn = "partOfApp"
  /\ Returns(partOfApp(arg.changedFiles, MkApp(<<"n">>, RepoHere, arg.path, "main", "Synced")))

NextAffinity == partOfAppReturns

SpecAffinity == InitAffinity /\ [][NextAffinity]_vars

\* ------------------------------------------------------------------------
\* C12
\* ------------------------------------------------------------------------
\* the non-empty segments of a path
Segments(p) == SelectSeq(splitOn(p, sep), LAMBDA part : part # <<>>)

\* a path without the separators at its ends
RECURSIVE StripSeparators(_)
StripSeparators(p) ==
  IF p = <<>> THEN <<>>
  ELSE IF Head(p) = sep THEN StripSeparators(Tail(p))
  ELSE IF p[Len(p)] = sep THEN StripSeparators(SubSeq(p, 1, Len(p) - 1))
  ELSE p

\* the affinity prefix as claimed: the first two segments of the normalised
\* source path, or the whole normalised path when it has fewer than two
ClaimedPrefix(path) ==
  LET n == normalize(path)
  IN  IF Len(Segments(n)) < 2 THEN n
      ELSE Segments(n)[1] \o <<sep>> \o Segments(n)[2]

\* the affinity prefix as amended: with fewer than two segments, the
\* normalised path without a separator at its start or end
AmendedPrefix(path) ==
  LET n == normalize(path)
  IN  IF Len(Segments(n)) < 2 THEN StripSeparators(n)
      ELSE Segments(n)[1] \o <<sep>> \o Segments(n)[2]

NameChars == {"f", "b", "q"}

\* metadata.name: fb stands for foobar, qq for bazqux
Names == AllSeqs(NameChars, MaxNameLen) \ {<<>>}

\* the regular expressions given between slashes:
\* bar$, ^(?!foobar$).*$, ^foo, the empty expression, foo.*bar, bazqux
RegexSamples ==
  { <<"b", "$">>,
    <<"^", "(", "?", "!", "f", "b", "$", ")", ".", "*", "$">>,
    <<"^", "f">>,
    <<>>,
    <<"f", ".", "*", "b">>,
    <<"q", "q">> }

\* the lists of names: "fb", "fb,qq", "f", "qq,", "/f" and ",q"
ListSamples ==
  { <<"f", "b">>,
    <<"f", "b", ",", "q", "q">>,
    <<"f">>,
    <<"q", "q", ",">>,
    <<"/", "f">>,
    <<",", "q">> }

Slashed(re) == <<"/">> \o re \o <<"/">>

NameMatchers == {<<>>} \cup {Slashed(re) : re \in RegexSamples} \cup ListSamples

Named(name) == MkApp(name, RepoHere, <<"i", "/", "a">>, "main", "Synced")

InitNameFilter ==
  \E names \in AllSeqs(Names, MaxNamed), matcher \in NameMatchers :
    Called([fn |-> "filterAppsByName",
            apps |-> [i \in 1..Len(names) |-> Named(names[i])],
            matcher |-> matcher])

filterAppsByNameReturns ==
  /\ arg.fn = "filterAppsByName"
  /\ Returns(filterAppsByName(arg.apps, arg.matcher))

NextNameFilter == filterAppsByNameReturns

SpecNameFilter == InitNameFilter /\ [][NextNameFilter]_vars

NameFilterReturned == phase = "returned" /\ arg.fn = "filterAppsByName"

\* ------------------------------------------------------------------------
\* C13
\* ------------------------------------------------------------------------
\* C13: with the empty matcher filterAppsByName returns its input list, the
\* same elements in the same order.
C13_EmptyMatcherIsIdentity ==
  (NameFilterReturned /\ arg.matcher = <<>>) => ret = arg.apps

\* [foobar, bazqux] went through the empty matcher
C13_Witness ==
  /\ NameFilterReturned
  /\ arg.matcher = <<>>
  /\ arg.apps = <<Named(<<"f", "b">>), Named(<<"q", "q">>)>>
  /\ ret = arg.apps

\* ------------------------------------------------------------------------
\* C14
\* ------------------------------------------------------------------------
EndsWith(name, suffix) ==
  Len(suffix) <= Len(name)
  /\ SubSeq(name, Len(name) - Len(suffix) + 1, Len(name)) = suffix

\* what each expression of RegexSamples means for a name
RegexMeaning(re, name) ==
  CASE re = <<"b", "$">> -> EndsWith(name, <<"b">>)
    [] re = <<"^", "(", "?", "!", "f", "b", "$", ")", ".", "*", "$">> -> name # <<"f", "b">>
    [] re = <<"^", "f">> -> IsPrefix(<<"f">>, name)
    [] re = <<>> -> TRUE
    [] re = <<"f", ".", "*", "b">> ->
         \E i, j \in 1..Len(name) : i < j /\ name[i] = "f" /\ name[j] = "b"
    [] re = <<"q", "q">> -> Includes(name, <<"q", "q">>)

\* C14: with a matcher between two slashes filterAppsByName returns, in
\* input order, exactly the applications whose name matches the expression
\* between the slashes, also with an end anchor or a negative lookahead.
C14_RegexMatcher ==
  NameFilterReturned =>
    \A re \in RegexSamples :
      arg.matcher = Slashed(re) =>
        ret = SelectSeq(arg.apps, LAMBDA app : RegexMeaning(re, app.name))

\* /^(?!foobar$).*$/ kept bazqux and dropped foobar
C14_Witness ==
  /\ NameFilterReturned
  /\ arg.matcher = Slashed(<<"^", "(", "?", "!", "f", "b", "$", ")", ".", "*", "$">>)
  /\ arg.apps = <<Named(<<"f", "b">>), Named(<<"q", "q">>)>>
  /\ ret = <<Named(<<"q", "q">>)>>

\* ------------------------------------------------------------------------
\* C15
\* ------------------------------------------------------------------------
\* the name stands between two commas, or an end, of the matcher
ListedExactly(name, matcher) ==
  Includes(<<",">> \o matcher \o <<",">>, <<",">> \o name \o <<",">>)

\* C15: with a non-empty matcher that is not between two slashes
\* filterAppsByName returns, in input order, exactly the applications whose
\* name is one of the names that the commas of the matcher separate.
C15_ListMatcher ==
  (NameFilterReturned /\ arg.matcher \in ListSamples) =>
    ret = SelectSeq(arg.apps, LAMBDA app : ListedExactly(app.name, arg.matcher))

\* the list "fb,qq" kept qq and dropped f, a part of a listed name
C15_Witness ==
  /\ NameFilterReturned
  /\ arg.matcher = <<"f", "b", ",", "q", "q">>
  /\ arg.apps = <<Named(<<"f">>), Named(<<"q", "q">>)>>
  /\ ret = <<Named(<<"q", "q">>)>>

\* ------------------------------------------------------------------------
\* scrubSecrets on a text
\* ------------------------------------------------------------------------
\* the characters of the texts: the flag words, a space, two letters and "$"
ScrubChars == {"F", " ", "a", "b", "$"}

InitScrub ==
  \E input \in AllSeqs(ScrubChars, MaxText) :
    Called([fn |-> "scrubSecrets", input |-> input])

scrubSecretsReturns ==
  /\ arg.fn = "scrubSecrets"
  /\ Returns(scrubSecrets(arg.input))

NextScrub == scrubSecretsReturns

SpecScrub == InitScrub /\ [][NextScrub]_vars

\* ------------------------------------------------------------------------
\* C16
\* ------------------------------------------------------------------------
\* the values that follow a flag in the text
FlagValues(input) == {captured(input, i) : i \in flagStarts(input)}

\* C16: for a text with a fragment --auth-token=<value>, the text that
\* scrubSecrets returns holds no occurrence of <value>.
C16_NoValueLeft ==
  (phase = "returned" /\ arg.fn = "scrubSecrets") =>
    \A value \in FlagValues(arg.input) : ~Includes(ret, value)

\* the value "a" stood after the flag and once elsewhere: both are redacted
C16_Witness ==
  /\ phase = "returned" /\ arg.fn = "scrubSecrets"
  /\ arg.input = <<"F", "a", " ", "a">>
  /\ ret = <<"F", "***", " ", "***">>

\* ------------------------------------------------------------------------
\* filterDiff on a diff text, and once more on its result
\* ------------------------------------------------------------------------
DiffTexts == AllSeqs(Lines, MaxLines) \cup {DiffBody, NoiseOnly, MixedDiff}

InitFilterDiff ==
  \E diffText \in DiffTexts : Called([fn |-> "filterDiff", diffText |-> diffText])

filterDiffReturns ==
  /\ arg.fn = "filterDiff"
  /\ Returns(filterDiff(arg.diffText))

\* the text that filterDiff returned is given to filterDiff
filterDiffAgain ==
  /\ arg.fn = "filterDiff"
  /\ phase = "returned"
  /\ phase' = "again"
  /\ arg' = [fn |-> "filterDiff", diffText |-> ret]
  /\ ret' = filterDiff(ret)
  /\ UNCHANGED runVars

NextFilterDiff == filterDiffReturns \/ filterDiffAgain

SpecFilterDiff == InitFilterDiff /\ [][NextFilterDiff]_vars

\* ------------------------------------------------------------------------
\* C17
\* ------------------------------------------------------------------------
\* C17: filterDiff applied to a text that filterDiff returned gives that
\* text back.
C17_Idempotent ==
  (phase = "again" /\ arg.fn = "filterDiff") => ret = arg.diffText

\* ------------------------------------------------------------------------
\* C18
\* ------------------------------------------------------------------------
\* C18: the text that filterDiff returns has no header line without a body
\* line under it and no blank line at either end, and the text of one header
\* and one label-churn block gives the empty text.
C18_NoEmptySection ==
  (phase = "returned" /\ arg.fn = "filterDiff") =>
    /\ \A i \in 1..Len(ret) :
         ret[i] = "H" => (i < Len(ret) /\ ret[i + 1] # "H")
    /\ ret # <<>> => (ret[1] # "E" /\ ret[Len(ret)] # "E")
    /\ arg.diffText = NoiseOnly => ret = <<>>

\* one header with the churn of the instance label came back empty
C18_Witness ==
  /\ phase = "returned" /\ arg.fn = "filterDiff"
  /\ arg.diffText = NoiseOnly
  /\ ret = <<>>

\* ------------------------------------------------------------------------
\* C19
\* ------------------------------------------------------------------------
\* asyncForEach has returned, postDiffComment has not been called yet
LoopDone(r) == pc[r] = "loop" /\ ~inflight[r] /\ index[r] > Len(apps[r])

\* the number of Diff records for the i-th selected application
RecordCount(r, i) ==
  Cardinality({j \in 1..Len(diffs[r]) : diffs[r][j].app = apps[r][i]})

\* C19 (as claimed): at the end of the loop diffs holds exactly one record
\* for every selected application, whatever the outcome of its invocation.
C19_OneRecordPerApp ==
  \A r \in Runs :
    LoopDone(r) => \A i \in 1..Len(apps[r]) : RecordCount(r, i) = 1

\* C19: at the end of the loop every selected application has been invoked,
\* and diffs holds exactly one record for every application whose process
\* ended with an error (a diff or a tool failure), none for an application
\* whose process ended without one, and nothing else; the records are in
\* the order of the selection.
C19_OneRecordPerError ==
  \A r \in Runs :
    LoopDone(r) =>
      /\ Len(execLog[r]) = Len(apps[r])
      /\ \A i \in 1..Len(apps[r]) :
           RecordCount(r, i) = IF execLog[r][i].err THEN 1 ELSE 0
      /\ \A j \in 1..Len(diffs[r]) : \E i \in 1..Len(apps[r]) : diffs[r][j].app = apps[r][i]
      /\ \A j, k \in 1..Len(diffs[r]) :
           j < k => \E a, b \in 1..Len(apps[r]) :
                      a < b /\ diffs[r][j].app = apps[r][a] /\ diffs[r][k].app = apps[r][b]

\* the loop over three applications ended: a diff, a tool failure and a
\* clean result
C19_Witness ==
  /\ LoopDone("r1")
  /\ Len(apps["r1"]) = 3
  /\ DiffIdx("r1") # {}
  /\ FailedIdx("r1") # {}
  /\ \E i \in 1..3 : ~execLog["r1"][i].err
  /\ Len(diffs["r1"]) = 2

\* ------------------------------------------------------------------------
\* C20
\* ------------------------------------------------------------------------
\* the comments that run r found with the header of its environment and
\* that are still on the change request
StaleLeft(r) ==
  {c \in comments : c \in listed[r] /\ bodyIncludes(c.body, prefixHeader(ENV[r]))}

\* C20 (as claimed): a run sends its deleteComment and createComment
\* requests only after listComments has answered, and the report of a run is
\* on the change request only when every comment that the run found with
\* the header of its environment has been deleted.
C20_DeletedBeforeCreated ==
  \A r \in Runs :
    /\ RequestsOf(r) # {} => pc[r] = "done"
    /\ (\E c \in comments : c.by = r) => StaleLeft(r) = {}

\* ------------------------------------------------------------------------
\* C21
\* ------------------------------------------------------------------------
\* the diff processes of run r that have started and not ended
InFlight(r) == Len(invoked[r]) - Len(execLog[r])

\* C21: at most one diff process of a run is in flight at any time, the
\* processes start in the order of the selection, and the report is composed
\* only when the process of every selected application has ended.
C21_Sequential ==
  \A r \in Runs :
    /\ InFlight(r) \in {0, 1}
    /\ Len(invoked[r]) <= Len(apps[r])
    /\ \A i \in 1..Len(invoked[r]) : invoked[r][i] = apps[r][i].name
    /\ Composed(r) => (Len(execLog[r]) = Len(apps[r]) /\ InFlight(r) = 0)

\* the second process is in flight, the first has ended, a third is to come
C21_Witness ==
  /\ pc["r1"] = "loop"
  /\ Len(apps["r1"]) = 3
  /\ Len(invoked["r1"]) = 2
  /\ Len(execLog["r1"]) = 1
  /\ InFlight("r1") = 1

\* ------------------------------------------------------------------------
\* C22
\* ------------------------------------------------------------------------
\* C22: the blocks of the composed report stand in the order of the
\* selection: of two blocks, the earlier one is of the application that is
\* earlier in the list of selected applications.
C22_BlocksInSourceOrder ==
  \A r \in Runs :
    Composed(r) =>
      \A j, k \in 1..Len(output[r].blocks) :
        j < k => \E a, b \in 1..Len(apps[r]) :
                   /\ a < b
                   /\ output[r].blocks[j].name = apps[r][a].name
                   /\ output[r].blocks[k].name = apps[r][b].name

\* the report has the blocks of the first and of the third of three
\* applications, the second one had nothing to show
C22_Witness ==
  /\ Composed("r1")
  /\ Len(apps["r1"]) = 3
  /\ Len(output["r1"].blocks) = 2
  /\ output["r1"].blocks[1].name = apps["r1"][1].name
  /\ output["r1"].blocks[2].name = apps["r1"][3].name

\* ------------------------------------------------------------------------
\* A run after a run on the same change request
\* ------------------------------------------------------------------------
\* The process of run r is ended from outside (the job is cancelled, the
\* runner is lost) after run has returned and while requests that were not
\* awaited are still to be sent: these requests are lost.
processKilled(r) ==
  /\ pc[r] = "done"
  /\ \E req \in pending : req.run = r
  /\ pending' = {req \in pending : req.run # r}
  /\ pc' = [pc EXCEPT ![r] = "killed"]
  /\ UNCHANGED <<configVars, selectionVars, loopVars, reportVars, comments, nextId,
                 settled, statusVars, historyVars, callVars>>

\* the process of run r is over
Ended(r) == pc[r] = "killed" \/ Finished(r)

\* the runs of this specification: no name matcher, at most one application
\* selected
OneApp(r) == APP_NAME_MATCHER[r] = <<>> /\ Len(apps[r]) <= 1

FirstRunStep == RunStep("r1") /\ OneApp("r1")'

\* the workflow runs again when the first process is over
NextRunStep == Ended("r1") /\ RunStep("r2") /\ OneApp("r2")'

NextAfterRun ==
  \/ FirstRunStep
  \/ processKilled("r1")
  \/ NextRunStep
  \/ ServiceStep

SpecAfterRun == Init /\ [][NextAfterRun]_vars

\* ------------------------------------------------------------------------
\* C23
\* ------------------------------------------------------------------------
\* run r was ended after the deletion of every comment it found with its
\* header and before its report was posted
CrashedBetween(r) ==
  /\ pc[r] = "killed"
  /\ StaleLeft(r) = {}
  /\ ~ \E c \in comments : c.by = r

\* C23: when the first run has been ended between deletion and posting, the
\* change request holds no comment with the header of its environment until
\* the next run starts; and once the next run for the same environment has
\* returned and all its requests have taken effect, the change request holds
\* exactly one such comment when that run had something to report and none
\* otherwise.
C23_SelfHealing ==
  CrashedBetween("r1") =>
    /\ pc["r2"] = "idle" => MarkerComments(ENV["r1"]) = {}
    /\ (ENV["r2"] = ENV["r1"] /\ Reconciled("r2")) =>
         Cardinality(MarkerComments(ENV["r2"])) =
           IF Len(filteredDiffs["r2"]) > 0 THEN 1 ELSE 0

\* the first run deleted an earlier report and lost its own, the next run
\* for the same environment has posted one
C23_Witness ==
  /\ CrashedBetween("r1")
  /\ \E c \in listed["r1"] : bodyIncludes(c.body, prefixHeader(ENV["r1"]))
  /\ Len(filteredDiffs["r1"]) > 0
  /\ ENV["r2"] = ENV["r1"]
  /\ Reconciled("r2")
  /\ Len(filteredDiffs["r2"]) > 0
  /\ Cardinality(MarkerComments(ENV["r2"])) = 1

\* ------------------------------------------------------------------------
\* Two runs on the same change request at the same time
\* ------------------------------------------------------------------------
OverlapStep(r) == RunStep(r) /\ OneApp(r)'

NextOverlap == OverlapStep("r1") \/ OverlapStep("r2") \/ ServiceStep

SpecOverlap == Init /\ [][NextOverlap]_vars

\* ------------------------------------------------------------------------
\* C24
\* ------------------------------------------------------------------------
\* both runs listed the comments before the report of either was posted
ListedBeforeEitherPosted ==
  \A r \in Runs :
    /\ pc[r] = "done"
    /\ \A c \in listed[r] : c.by = "prior"

\* C24 (as claimed): when two runs for the same environment have both
\* listed the comments before either posted, and both have finished, the
\* change request holds at most one comment with the header of the
\* environment.
C24_AtMostOneAfterOverlap ==
  ( /\ ENV["r1"] = ENV["r2"]
    /\ ListedBeforeEitherPosted
    /\ \A r \in Runs : Finished(r) )
  => Cardinality(MarkerComments(ENV["r1"])) <= 1

\* ------------------------------------------------------------------------
\* C25
\* ------------------------------------------------------------------------
\* C25 (as claimed): every comment that a run asks to delete is a report
\* for the environment label of that run: its first line is the header for
\* that label, not the header for another label and not some other text.
C25_DeletesOnlyOwnEnvironment ==
  \A r \in Runs :
    \A req \in RequestsOf(r) :
      req.op = "deleteComment" =>
        \A c \in listed[r] : c.id = req.id => c.body.head = reportHead(ENV[r])

\* ------------------------------------------------------------------------
\* C26
\* ------------------------------------------------------------------------
\* the file is the directory that the prefix names or lies below it; the
\* empty prefix names the root of the repository
InOrBelow(file, prefix) ==
  LET n == normalize(file)
  IN  prefix = <<>> \/ n = prefix \/ IsPrefix(prefix \o <<sep>>, n)

\* C26 (as claimed): partOfApp is true only when some changed file lies in
\* the directory named by the affinity prefix or below it.
C26_DirectoryBoundary ==
  (phase = "returned" /\ arg.fn = "partOfApp" /\ ret = TRUE) =>
    \E i \in 1..Len(arg.changedFiles) :
      InOrBelow(arg.changedFiles[i], AmendedPrefix(arg.path))

\* ------------------------------------------------------------------------
\* C27
\* ------------------------------------------------------------------------
\* the comments that run r found with the header of its environment
StaleListed(r) == {c \in listed[r] : bodyIncludes(c.body, prefixHeader(ENV[r]))}

\* C27: a run whose inventory request threw goes on to the reconciliation
\* with no record: unless listComments throws, it asks for the deletion of
\* every comment it found with the header of its environment and for nothing
\* else, and when its requests have taken effect no such comment is left.
C27_FailedInventoryStillReconciles ==
  \A r \in Runs :
    "getApps" \in thrown[r] =>
      /\ pc[r] \in {"loop", "listComments", "done", "rejected"}
      /\ pc[r] = "rejected" => "listComments" \in thrown[r]
      /\ Composed(r) => (diffs[r] = <<>> /\ filteredDiffs[r] = <<>>)
      /\ pc[r] = "done" =>
           /\ \A req \in RequestsOf(r) : req.op = "deleteComment"
           /\ {req.id : req \in RequestsOf(r)} = {c.id : c \in StaleListed(r)}
      /\ Reconciled(r) => MarkerComments(ENV[r]) = {}

\* the inventory request threw, the run found two earlier reports and
\* deleted both
C27_Witness ==
  /\ "getApps" \in thrown["r1"]
  /\ Reconciled("r1")
  /\ Cardinality(StaleListed("r1")) = 2
  /\ MarkerComments(ENV["r1"]) = {}
  /\ exitCode["r1"] = 1

====
